---- MODULE Spec2Model ----
(***************************************************************************)
(* Model of api/clean-and-classify-ua.js: the User-Agent classification    *)
(* pipeline (applyAllCustomRules, inferDeviceType, normalizeResult,        *)
(* calculateConfidence) and the request handler with its module-level      *)
(* FIFO cache.                                                             *)
(*                                                                         *)
(* Encoding of JavaScript values                                           *)
(*  - fields the code inspects character by character (os.name and the     *)
(*    version fields) are sequences of one-character strings; undefined    *)
(*    and null are the one-element sequences Undef and Null;               *)
(*  - fields the code only copies or compares are TLA+ strings; undefined  *)
(*    and null are the strings UNDEFINED and NULL;                         *)
(*  - objects that may be absent (result.bot, req.body) are records, with  *)
(*    JsUndefined / JsNull for the absent cases;                           *)
(*  - a UA string is a space-separated sequence of tokens of a fixed       *)
(*    vocabulary, followed by `pad' filler characters.                     *)
(***************************************************************************)
EXTENDS Integers, Sequences, FiniteSets, TLC

\* ------------------------------------------------------------------------
\* Bounds of the model
\* ------------------------------------------------------------------------

\* capacity of the cache in the model (the source sets 1000, line 24)
CacheBound == 2
\* handler invocations that may overlap
NumSlots == 2
\* tokens in a UA string given to the classification pipeline
MaxTokens == 2

\* ------------------------------------------------------------------------
\* 1. Configuration
\* ------------------------------------------------------------------------

CACHE_SIZE == CacheBound
PARSE_TIMEOUT_MS == 100

\* ------------------------------------------------------------------------
\* JavaScript values
\* ------------------------------------------------------------------------

UNDEFINED == "<undefined>"
NULL == "<null>"
Undef == << "<undefined>" >>
Null == << "<null>" >>
JsUndefined == [js |-> "undefined"]
JsNull == [js |-> "null"]

\* truthiness of a TLA+-string field
Truthy(v) == v \notin {UNDEFINED, NULL, ""}
\* truthiness of a character-sequence field
TruthyS(s) == s \notin {Undef, Null, << >>}
\* truthiness of an object-or-absent value
TruthyO(o) == o \notin {JsUndefined, JsNull}

\* ------------------------------------------------------------------------
\* String methods on character sequences
\* ------------------------------------------------------------------------

UPPER == << "A","B","C","D","E","F","G","H","I","J","K","L","M",
            "N","O","P","Q","R","S","T","U","V","W","X","Y","Z" >>
LOWER == << "a","b","c","d","e","f","g","h","i","j","k","l","m",
            "n","o","p","q","r","s","t","u","v","w","x","y","z" >>

ToLowerChar(c) ==
    IF \E i \in 1..26 : UPPER[i] = c
    THEN LOWER[CHOOSE i \in 1..26 : UPPER[i] = c]
    ELSE c

\* String.prototype.toLowerCase
ToLowerCase(s) == [i \in 1..Len(s) |-> ToLowerChar(s[i])]

\* does p occur in s at position i (1-based)
OccursAt(s, p, i) ==
    /\ i >= 1
    /\ i + Len(p) - 1 <= Len(s)
    /\ \A j \in 1..Len(p) : s[i + j - 1] = p[j]

\* String.prototype.startsWith
StartsWith(s, p) == OccursAt(s, p, 1)

\* String.prototype.includes
Includes(s, p) == \E i \in 1..(Len(s) + 1) : OccursAt(s, p, i)

\* String.prototype.replace(key, value) with a string key: the first
\* occurrence only
ReplaceFirst(s, key, value) ==
    IF ~Includes(s, key) THEN s
    ELSE LET i == CHOOSE k \in 1..(Len(s) + 1) :
                     /\ OccursAt(s, key, k)
                     /\ \A m \in 1..(k - 1) : ~OccursAt(s, key, m)
         IN  SubSeq(s, 1, i - 1) \o value \o SubSeq(s, i + Len(key), Len(s))

\* String.prototype.split(' ')
RECURSIVE SplitFrom(_, _, _)
SplitFrom(s, i, cur) ==
    IF i > Len(s) THEN << cur >>
    ELSE IF s[i] = " " THEN << cur >> \o SplitFrom(s, i + 1, << >>)
    ELSE SplitFrom(s, i + 1, Append(cur, s[i]))

Split(s) == SplitFrom(s, 1, << >>)

\* a character sequence as a TLA+ string
RECURSIVE ToStr(_)
ToStr(s) == IF s = << >> THEN "" ELSE s[1] \o ToStr(Tail(s))


\* ------------------------------------------------------------------------
\* UA strings
\* ------------------------------------------------------------------------

\* The vocabulary.  For each token: its text, the rule patterns of
\* CUSTOM_RULES its text matches (by rule name), the text captured by the
\* pattern's group 1 (Undef when the pattern has no group), and which of
\* the alternatives of the two regular expressions of inferDeviceType
\* occur in the text, case-insensitively.
TOKENS == {
  [text |-> "Mozilla/5.0", rules |-> {}, group1 |-> Undef, contains |-> {}],
  [text |-> "Googlebot/2.1", rules |-> {"Googlebot"},
   group1 |-> << "2", ".", "1" >>, contains |-> {"bot"}],
  [text |-> "bingbot/2.0", rules |-> {"Bingbot"},
   group1 |-> << "2", ".", "0" >>, contains |-> {"bot"}],
  [text |-> "HeadlessChrome/90.0", rules |-> {"Headless Chrome"},
   group1 |-> << "9", "0", ".", "0" >>, contains |-> {}],
  [text |-> "Selenium", rules |-> {"Selenium"}, group1 |-> Undef,
   contains |-> {}],
  [text |-> "Tesla/2021.4", rules |-> {"Tesla"},
   group1 |-> << "2", "0", "2", "1", ".", "4" >>, contains |-> {}],
  [text |-> "PlayStation 5", rules |-> {"Sony"}, group1 |-> << "5" >>,
   contains |-> {}],
  [text |-> "Xbox", rules |-> {"Microsoft"}, group1 |-> Undef,
   contains |-> {}],
  [text |-> "MicroMessenger/8.0", rules |-> {"WeChat"},
   group1 |-> << "8", ".", "0" >>, contains |-> {}],
  [text |-> "360SE", rules |-> {"360 Secure Browser"}, group1 |-> Undef,
   contains |-> {}],
  [text |-> "iPad", rules |-> {}, group1 |-> Undef, contains |-> {"ipad"}],
  [text |-> "Baiduspider/2.0", rules |-> {}, group1 |-> Undef,
   contains |-> {"spider"}],
  [text |-> "WebScraper/1.0", rules |-> {}, group1 |-> Undef,
   contains |-> {"scraper"}],
  [text |-> "Crawl4AI/0.4", rules |-> {}, group1 |-> Undef,
   contains |-> {"crawl"}],
  [text |-> "Chrome/90.0", rules |-> {}, group1 |-> Undef, contains |-> {}],
  [text |-> "Safari/537.36", rules |-> {}, group1 |-> Undef, contains |-> {}],
  [text |-> "Firefox/88.0", rules |-> {}, group1 |-> Undef, contains |-> {}]
}

Token(text) == CHOOSE t \in TOKENS : t.text = text

\* a UA string: tokens separated by single spaces, then pad filler
\* characters that match no pattern
UAString(toks, pad) == [toks |-> toks, pad |-> pad]

RECURSIVE TokensLength(_)
TokensLength(toks) ==
    IF toks = << >> THEN 0
    ELSE Len(toks[1]) + (IF Len(toks) > 1 THEN 1 ELSE 0)
         + TokensLength(Tail(toks))

\* ua_string.length
Length(ua) == TokensLength(ua.toks) + ua.pad

NoMatch == [found |-> FALSE, group1 |-> Undef]

\* ua.match(rule.pattern): the leftmost match, with its group 1
RECURSIVE MatchFrom(_, _, _)
MatchFrom(toks, i, pattern) ==
    IF i > Len(toks) THEN NoMatch
    ELSE IF pattern \in Token(toks[i]).rules
         THEN [found |-> TRUE, group1 |-> Token(toks[i]).group1]
         ELSE MatchFrom(toks, i + 1, pattern)

Match(ua, pattern) == MatchFrom(ua.toks, 1, pattern)

\* regex.test(ua) for an alternation of literals with the i flag
Test(alternatives, ua) ==
    \E i \in 1..Len(ua.toks) : Token(ua.toks[i]).contains \cap alternatives # {}

\* ------------------------------------------------------------------------
\* CUSTOM_RULES and VERSION_MAP
\* ------------------------------------------------------------------------

\* The pattern of a rule is named after the rule.  A device model is a
\* template: literal parts and references $n to the groups of the match.
CUSTOM_RULES == [
  browsers |-> <<
    [name |-> "WeChat", pattern |-> "WeChat"],
    [name |-> "QQ Browser", pattern |-> "QQ Browser"],
    [name |-> "UC Browser", pattern |-> "UC Browser"],
    [name |-> "BaiduBoxApp", pattern |-> "BaiduBoxApp"],
    [name |-> "360 Secure Browser", pattern |-> "360 Secure Browser"],
    [name |-> "Sogou Mobile Browser", pattern |-> "Sogou Mobile Browser"],
    [name |-> "Maxthon", pattern |-> "Maxthon"],
    [name |-> "DingTalk", pattern |-> "DingTalk"] >>,
  bots |-> <<
    [name |-> "Googlebot", type |-> "crawler", pattern |-> "Googlebot"],
    [name |-> "Bingbot", type |-> "crawler", pattern |-> "Bingbot"],
    [name |-> "Puppeteer", type |-> "automation", pattern |-> "Puppeteer"],
    [name |-> "Playwright", type |-> "automation", pattern |-> "Playwright"],
    [name |-> "Selenium", type |-> "automation", pattern |-> "Selenium"],
    [name |-> "Headless Chrome", type |-> "automation",
     pattern |-> "Headless Chrome"] >>,
  devices |-> <<
    [vendor |-> "Tesla", model |-> << [lit |-> "Car Browser"] >>,
     type |-> "vehicle", pattern |-> "Tesla"],
    [vendor |-> "Nintendo", model |-> << [lit |-> "Switch"] >>,
     type |-> "console", pattern |-> "Nintendo"],
    [vendor |-> "Sony", model |-> << [lit |-> "PlayStation "], [ref |-> 1] >>,
     type |-> "console", pattern |-> "Sony"],
    [vendor |-> "Microsoft", model |-> << [lit |-> "Xbox"] >>,
     type |-> "console", pattern |-> "Microsoft"],
    [vendor |-> "Oculus", model |-> << [lit |-> "Quest"] >>,
     type |-> "vr", pattern |-> "Oculus"],
    [vendor |-> "Unknown", model |-> << [lit |-> "Smart TV"] >>,
     type |-> "smarttv", pattern |-> "Unknown"] >>
]

VERSION_MAP == <<
  << << "M","a","c"," ","O","S"," ","1","0",".","1","6" >>,
     << "m","a","c","O","S"," ","1","1" >> >>,
  << << "W","i","n","d","o","w","s"," ","N","T"," ","1","0",".","0" >>,
     << "W","i","n","d","o","w","s"," ","1","0" >> >>,
  << << "W","i","n","d","o","w","s"," ","N","T"," ","6",".","3" >>,
     << "W","i","n","d","o","w","s"," ","8",".","1" >> >>
>>

\* ------------------------------------------------------------------------
\* 2. Core logic functions
\* ------------------------------------------------------------------------

\* rule.model.replace(/\$(\d+)/g, (_, n) => match[n] || '')
RECURSIVE ExpandTemplate(_, _)
ExpandTemplate(parts, match) ==
    IF parts = << >> THEN ""
    ELSE LET part == Head(parts)
             text == IF "lit" \in DOMAIN part THEN part.lit
                     ELSE IF part.ref = 1 /\ TruthyS(match.group1)
                          THEN ToStr(match.group1)
                          ELSE ""
         IN  text \o ExpandTemplate(Tail(parts), match)

\* the body of `if (match)' in apply: the assignments of one rule
ApplyRule(type, rule, match, result) ==
    IF type = "browsers" THEN
        [result EXCEPT
            !.browser.name = rule.name,
            !.browser.version = IF TruthyS(match.group1) THEN match.group1
                                ELSE result.browser.version]
    ELSE IF type = "devices" THEN
        [result EXCEPT
            !.device.vendor = rule.vendor,
            !.device.model = ExpandTemplate(rule.model, match),
            !.device.type = IF Truthy(rule.type) THEN rule.type
                            ELSE result.device.type]
    ELSE
        [result EXCEPT
            !.device.type = "bot",
            !.bot = [name |-> rule.name, type |-> rule.type]]

\* the loop of apply, from rule i of the category on
RECURSIVE applyFrom(_, _, _, _)
applyFrom(type, i, ua, result) ==
    IF i > Len(CUSTOM_RULES[type]) THEN [applied |-> FALSE, result |-> result]
    ELSE LET rule == CUSTOM_RULES[type][i]
             match == Match(ua, rule.pattern)
         IN  IF match.found
             THEN [applied |-> TRUE,
                   result |-> ApplyRule(type, rule, match, result)]
             ELSE applyFrom(type, i + 1, ua, result)

apply(type, ua, result) == applyFrom(type, 1, ua, result)

\* a variant that applies every category in turn, without the early returns
applyAllCustomRules_NoReturn(ua, result) ==
    LET r1 == apply("bots", ua, result).result
        r2 == apply("devices", ua, r1).result
    IN  apply("browsers", ua, r2).result

applyAllCustomRules(ua, result) ==
    LET bots == apply("bots", ua, result)
    IN  IF bots.applied THEN bots.result
        ELSE LET devices == apply("devices", ua, result)
             IN  IF devices.applied THEN devices.result
                 ELSE apply("browsers", ua, result).result

BOT_RE == {"bot", "crawler", "spider", "scraper", "crawl"}
TABLET_RE == {"tablet", "ipad", "playbook"}
MOBILE_OS == << << "a","n","d","r","o","i","d" >>,
                << "i","o","s" >>,
                << "w","i","n","d","o","w","s"," ","p","h","o","n","e" >> >>

\* a variant that keeps a rule-assigned type ahead of the bot test
inferDeviceType_TypeFirst(ua, result) ==
    IF Truthy(result.device.type) /\ result.device.type # "desktop"
    THEN result.device.type
    ELSE IF TruthyO(result.bot) \/ Test(BOT_RE, ua) THEN "bot"
    ELSE LET osName == IF TruthyS(result.os.name)
                       THEN ToLowerCase(result.os.name) ELSE << >>
         IN  IF \E k \in 1..Len(MOBILE_OS) : Includes(osName, MOBILE_OS[k])
             THEN IF Test(TABLET_RE, ua) THEN "tablet" ELSE "mobile"
             ELSE "desktop"

\* a variant without the final default
inferDeviceType_NoDefault(ua, result) ==
    IF TruthyO(result.bot) \/ Test(BOT_RE, ua) THEN "bot"
    ELSE IF Truthy(result.device.type) /\ result.device.type # "desktop"
    THEN result.device.type
    ELSE LET osName == IF TruthyS(result.os.name)
                       THEN ToLowerCase(result.os.name) ELSE << >>
         IN  IF \E k \in 1..Len(MOBILE_OS) : Includes(osName, MOBILE_OS[k])
             THEN IF Test(TABLET_RE, ua) THEN "tablet" ELSE "mobile"
             ELSE result.device.type

inferDeviceType(ua, result) ==
    IF TruthyO(result.bot) \/ Test(BOT_RE, ua) THEN "bot"
    ELSE IF Truthy(result.device.type) /\ result.device.type # "desktop"
    THEN result.device.type
    ELSE LET osName == IF TruthyS(result.os.name)
                       THEN ToLowerCase(result.os.name) ELSE << >>
         IN  IF \E k \in 1..Len(MOBILE_OS) : Includes(osName, MOBILE_OS[k])
             THEN IF Test(TABLET_RE, ua) THEN "tablet" ELSE "mobile"
             ELSE "desktop"

\* v.replace(/(?:\.0)+$/, '')
RECURSIVE StripTrailingZeroGroups(_)
StripTrailingZeroGroups(v) ==
    IF Len(v) >= 2 /\ v[Len(v) - 1] = "." /\ v[Len(v)] = "0"
    THEN StripTrailingZeroGroups(SubSeq(v, 1, Len(v) - 2))
    ELSE v

cleanVersion(v) == IF TruthyS(v) THEN StripTrailingZeroGroups(v) ELSE Null

\* the loop over Object.entries(VERSION_MAP), from entry i on, with its break
RECURSIVE MapVersionFrom(_, _, _)
MapVersionFrom(i, name, version) ==
    IF i > Len(VERSION_MAP) THEN [name |-> name, version |-> version]
    ELSE LET key == VERSION_MAP[i][1]
             value == VERSION_MAP[i][2]
         IN  IF TruthyS(version) /\ StartsWith(version, key)
             THEN [name |-> Split(value)[1],
                   version |-> ReplaceFirst(version, key, Split(value)[2])]
             ELSE MapVersionFrom(i + 1, name, version)

UNKNOWN_OS == << "U","n","k","n","o","w","n" >>
MAC_OS == << "M","a","c"," ","O","S" >>
MACOS == << "m","a","c","O","S" >>

normalizeResult(result) ==
    LET mapped == MapVersionFrom(
                      1,
                      IF TruthyS(result.os.name) THEN result.os.name
                      ELSE UNKNOWN_OS,
                      result.os.version)
        finalOSName == IF StartsWith(mapped.name, MAC_OS) THEN MACOS
                       ELSE mapped.name
    IN  [os |-> [name |-> finalOSName, version |-> cleanVersion(mapped.version)],
         browser |-> [name |-> result.browser.name,
                      version |-> cleanVersion(result.browser.version),
                      major |-> result.browser.major],
         device |-> [type |-> result.device.type,
                     vendor |-> result.device.vendor,
                     model |-> result.device.model],
         engine |-> [name |-> result.engine.name,
                     version |-> cleanVersion(result.engine.version)],
         cpu |-> [architecture |-> result.cpu.architecture],
         bot |-> IF TruthyO(result.bot) THEN result.bot ELSE JsNull]

calculateConfidence(result) ==
      (IF Truthy(result.browser.name) /\ result.browser.name # "Unknown"
       THEN 40 ELSE 0)
    + (IF TruthyS(result.os.name) /\ result.os.name # UNKNOWN_OS
       THEN 30 ELSE 0)
    + (IF Truthy(result.device.model) THEN 20 ELSE 0)
    + (IF Truthy(result.engine.name) THEN 10 ELSE 0)

\* the executor of parsingTask after the parser returned `result'
ParsingTask(ua, result) ==
    LET ruled == applyAllCustomRules(ua, result)
        typed == [ruled EXCEPT !.device.type = inferDeviceType(ua, ruled)]
    IN  normalizeResult(typed)

\* responsePayload; the clock readings are the duration of the request
ResponsePayload(finalResult, elapsed) ==
    [os |-> finalResult.os,
     browser |-> finalResult.browser,
     device |-> finalResult.device,
     engine |-> finalResult.engine,
     cpu |-> finalResult.cpu,
     bot |-> finalResult.bot,
     metadata |-> [parser_version |-> "1.6.0-ultimate",
                   confidence_score |-> calculateConfidence(finalResult),
                   processing_time_ms |-> elapsed,
                   cache_hit |-> FALSE]]

\* ------------------------------------------------------------------------
\* State
\* ------------------------------------------------------------------------

VARIABLES
    cache,       \* the Map: a sequence of [key, value] in insertion order
    pc,          \* per invocation: "idle", "awaiting", "resuming", "lingering"
    req,         \* per invocation in flight: the request
    task,        \* per invocation in flight: the state of parsingTask
    race,        \* per invocation in flight: the state of the race promise
    microtasks,  \* the microtask queue: invocations with a job to run
    out,         \* what the latest step of a handler did for its client
    setLog,      \* history: the keys given to cache.set since the start
    age,         \* history: the keys present, oldest insertion first
    stage,       \* the pipeline run: the step reached
    p_ua,        \* the pipeline run: the UA string
    p_base,      \* the pipeline run: the parser's result
    p_ruled,     \* the pipeline run: after applyAllCustomRules
    p_typed,     \* the pipeline run: after inferDeviceType
    p_final,     \* the pipeline run: after normalizeResult
    p_payload    \* the pipeline run: responsePayload

handlerVars == << cache, pc, req, task, race, microtasks, out, setLog, age >>
pipelineVars == << stage, p_ua, p_base, p_ruled, p_typed, p_final, p_payload >>
vars == << cache, pc, req, task, race, microtasks, out, setLog, age,
           stage, p_ua, p_base, p_ruled, p_typed, p_final, p_payload >>

\* ------------------------------------------------------------------------
\* The results of the baseline parser (ua-parser-js, getResult())
\* ------------------------------------------------------------------------

\* device.type as ua-parser-js reports it, with the vendor and model of an
\* example of each
DEVICES == {
  [type |-> UNDEFINED, vendor |-> UNDEFINED, model |-> UNDEFINED],
  [type |-> "mobile", vendor |-> "Samsung", model |-> "SM-G960F"],
  [type |-> "tablet", vendor |-> "Apple", model |-> "iPad"],
  [type |-> "console", vendor |-> "Nintendo", model |-> "Wii U"],
  [type |-> "smarttv", vendor |-> "LG", model |-> UNDEFINED],
  [type |-> "wearable", vendor |-> "Apple", model |-> "Watch"],
  [type |-> "embedded", vendor |-> "Amazon", model |-> "Echo"]
}

\* operating systems with the browser, engine and cpu of an example of each
PLATFORMS == {
  [os |-> [name |-> Undef, version |-> Undef],
   browser |-> [name |-> UNDEFINED, version |-> Undef, major |-> UNDEFINED],
   engine |-> [name |-> UNDEFINED, version |-> Undef],
   cpu |-> [architecture |-> UNDEFINED]],
  [os |-> [name |-> << "A","n","d","r","o","i","d" >>,
           version |-> << "1","0",".","0",".","0" >>],
   browser |-> [name |-> "Chrome", version |-> << "9","0",".","0",".","0" >>,
                major |-> "90"],
   engine |-> [name |-> "Blink", version |-> << "9","0",".","0" >>],
   cpu |-> [architecture |-> UNDEFINED]],
  [os |-> [name |-> << "i","O","S" >>, version |-> << "1","4",".","5" >>],
   browser |-> [name |-> "Mobile Safari", version |-> << "1","4",".","0" >>,
                major |-> "14"],
   engine |-> [name |-> "WebKit", version |-> << "6","0","5",".","1" >>],
   cpu |-> [architecture |-> UNDEFINED]],
  [os |-> [name |-> << "W","i","n","d","o","w","s"," ","P","h","o","n","e" >>,
           version |-> << "8",".","1" >>],
   browser |-> [name |-> "IEMobile", version |-> << "1","1",".","0" >>,
                major |-> "11"],
   engine |-> [name |-> "Trident", version |-> << "7",".","0" >>],
   cpu |-> [architecture |-> "arm"]],
  [os |-> [name |-> << "M","a","c"," ","O","S" >>,
           version |-> << "1","0",".","1","5",".","7" >>],
   browser |-> [name |-> "Safari", version |-> << "1","4",".","0" >>,
                major |-> "14"],
   engine |-> [name |-> "WebKit", version |-> << "6","0","5",".","1" >>],
   cpu |-> [architecture |-> UNDEFINED]]
}

\* getResult(): no bot field
UAResult(platform, device) ==
    [os |-> platform.os, browser |-> platform.browser, device |-> device,
     engine |-> platform.engine, cpu |-> platform.cpu, bot |-> JsUndefined]

UAResults == {UAResult(pf, d) : pf \in PLATFORMS, d \in DEVICES}

\* ------------------------------------------------------------------------
\* The classification pipeline, step by step
\* ------------------------------------------------------------------------

PIPELINE_TOKENS == {"Mozilla/5.0", "Googlebot/2.1", "bingbot/2.0", "Selenium",
                    "Tesla/2021.4", "PlayStation 5", "MicroMessenger/8.0",
                    "360SE", "iPad", "Baiduspider/2.0", "WebScraper/1.0",
                    "Crawl4AI/0.4"}

PipelineUAs ==
    {UAString(toks, 0) :
        toks \in UNION {[1..n -> PIPELINE_TOKENS] : n \in 1..MaxTokens}}

ParseDurations == {1, PARSE_TIMEOUT_MS + 50}

\* how the executor of parsingTask may end in the handler's runs: only the
\* longest string can take more than the budget or make the parser throw
OutcomesOf(ua) ==
    IF Length(ua) > 1024
    THEN {[throws |-> FALSE, elapsed |-> e] : e \in ParseDurations}
         \cup {[throws |-> TRUE, elapsed |-> 1]}
    ELSE {[throws |-> FALSE, elapsed |-> 1]}

None == [js |-> "none"]

HandlerIdle ==
    /\ cache = << >>
    /\ pc = [r \in 1..NumSlots |-> "idle"]
    /\ req = [r \in 1..NumSlots |-> None]
    /\ task = [r \in 1..NumSlots |-> None]
    /\ race = [r \in 1..NumSlots |-> None]
    /\ microtasks = << >>
    /\ out = None
    /\ setLog = << >>
    /\ age = << >>

\* new UAParser(ua_string).getResult()
PipelineInit ==
    /\ HandlerIdle
    /\ stage = "parsed"
    /\ p_ua \in PipelineUAs
    /\ p_base \in UAResults
    /\ p_ruled = None
    /\ p_typed = None
    /\ p_final = None
    /\ p_payload = None

RunRules ==
    /\ stage = "parsed"
    /\ stage' = "ruled"
    /\ p_ruled' = applyAllCustomRules(p_ua, p_base)
    /\ UNCHANGED << p_ua, p_base, p_typed, p_final, p_payload >>
    /\ UNCHANGED handlerVars

RunInfer ==
    /\ stage = "ruled"
    /\ stage' = "typed"
    /\ p_typed' = [p_ruled EXCEPT !.device.type = inferDeviceType(p_ua, p_ruled)]
    /\ UNCHANGED << p_ua, p_base, p_ruled, p_final, p_payload >>
    /\ UNCHANGED handlerVars

RunNormalize ==
    /\ stage = "typed"
    /\ stage' = "normalized"
    /\ p_final' = normalizeResult(p_typed)
    /\ UNCHANGED << p_ua, p_base, p_ruled, p_typed, p_payload >>
    /\ UNCHANGED handlerVars

Respond ==
    /\ stage = "normalized"
    /\ stage' = "responded"
    /\ \E elapsed \in ParseDurations :
           p_payload' = ResponsePayload(p_final, elapsed)
    /\ UNCHANGED << p_ua, p_base, p_ruled, p_typed, p_final >>
    /\ UNCHANGED handlerVars

PipelineNext == RunRules \/ RunInfer \/ RunNormalize \/ Respond

PipelineSpec == PipelineInit /\ [][PipelineNext]_vars

\* ------------------------------------------------------------------------
\* Properties of the classification pipeline (PipelineSpec)
\* ------------------------------------------------------------------------

\* the rules of a category whose pattern occurs somewhere in the UA string
MatchingRules(type, ua) ==
    {i \in 1..Len(CUSTOM_RULES[type]) :
        \E k \in 1..Len(ua.toks) :
            CUSTOM_RULES[type][i].pattern \in Token(ua.toks[k]).rules}

FirstMatching(type, ua) ==
    CHOOSE i \in MatchingRules(type, ua) :
        \A j \in MatchingRules(type, ua) : i <= j

\* C7: applyAllCustomRules applies at most one rule: the first matching bot
\* rule, else the first matching device rule, else the first matching
\* browser rule.  A bot match sets bot and device.type = 'bot' and leaves
\* device.vendor, device.model and the browser as the parser reported them;
\* a device match leaves the browser and bot alone; without a match the
\* record is unchanged.
C7_RulePrecedence ==
    stage # "parsed" =>
        IF MatchingRules("bots", p_ua) # {} THEN
            LET rule == CUSTOM_RULES.bots[FirstMatching("bots", p_ua)]
            IN  p_ruled = [p_base EXCEPT
                              !.bot = [name |-> rule.name, type |-> rule.type],
                              !.device.type = "bot"]
        ELSE IF MatchingRules("devices", p_ua) # {} THEN
            LET rule == CUSTOM_RULES.devices[FirstMatching("devices", p_ua)]
            IN  /\ p_ruled.device.vendor = rule.vendor
                /\ p_ruled.device.type = rule.type
                /\ [p_ruled EXCEPT !.device = p_base.device] = p_base
        ELSE IF MatchingRules("browsers", p_ua) # {} THEN
            LET rule == CUSTOM_RULES.browsers[FirstMatching("browsers", p_ua)]
            IN  /\ p_ruled.browser.name = rule.name
                /\ [p_ruled EXCEPT !.browser = p_base.browser] = p_base
        ELSE p_ruled = p_base

\* a UA string with a bot pattern, a device pattern and a parser-reported
\* device went through the rule engine
C7_Witness ==
    /\ stage = "ruled"
    /\ MatchingRules("bots", p_ua) # {}
    /\ MatchingRules("devices", p_ua) # {}
    /\ p_base.device.vendor = "Apple"
    /\ p_ruled.device.type = "bot"
    /\ p_ruled.device.vendor = "Apple"

CLOSED_TYPES == {"bot", "console", "vr", "smarttv", "vehicle", "tablet",
                 "mobile", "desktop"}

\* C8 as claimed: device.type of every successful response is one of bot,
\* console, vr, smarttv, vehicle, tablet, mobile, desktop.
C8_ClosedSet ==
    stage = "responded" => p_payload.device.type \in CLOSED_TYPES

\* C8 as amended: device.type of every successful response is non-empty and
\* is one of bot, console, vr, smarttv, vehicle, tablet, mobile, desktop or
\* the device type the baseline parser reported.
C8_ClosedSetOrBaseline ==
    stage = "responded" =>
        /\ Truthy(p_payload.device.type)
        /\ p_payload.device.type \in CLOSED_TYPES \cup {p_base.device.type}

\* a response for a UA string without any rule or bot token whose parser
\* result reported a wearable
C8_Witness ==
    /\ stage = "responded"
    /\ p_base.device.type = "wearable"
    /\ ~Test(BOT_RE, p_ua)
    /\ MatchingRules("bots", p_ua) \cup MatchingRules("devices", p_ua) = {}
    /\ p_payload.device.type = "wearable"

\* does the UA string contain one of the words, ignoring case
ContainsWord(ua, words) ==
    \E k \in 1..Len(ua.toks) : Token(ua.toks[k]).contains \cap words # {}

OsNameContains(result, words) ==
    /\ TruthyS(result.os.name)
    /\ \E w \in words : Includes(ToLowerCase(result.os.name), w)

\* the decision order of the claim, for a given list of bot words
DeviceTypeDecision(botWords) ==
    stage \notin {"parsed", "ruled"} =>
        LET type == p_typed.device.type
        IN  IF TruthyO(p_ruled.bot) \/ ContainsWord(p_ua, botWords)
            THEN type = "bot"
            ELSE IF Truthy(p_ruled.device.type)
                    /\ p_ruled.device.type # "desktop"
            THEN type = p_ruled.device.type
            ELSE IF OsNameContains(p_ruled,
                        {<< "a","n","d","r","o","i","d" >>, << "i","o","s" >>,
                         << "w","i","n","d","o","w","s"," ","p","h","o","n","e" >>})
            THEN type = IF ContainsWord(p_ua, {"tablet", "ipad", "playbook"})
                        THEN "tablet" ELSE "mobile"
            ELSE type = "desktop"

\* C10 as claimed: 'bot' when the record carries a bot or the UA contains
\* bot, crawler or spider; otherwise the existing non-desktop device type;
\* otherwise tablet or mobile by OS name; otherwise desktop.
C10_Priority == DeviceTypeDecision({"bot", "crawler", "spider"})

\* C10 as amended: 'bot' when the record carries a bot or the UA contains
\* bot, crawler, spider, scraper or crawl; otherwise the existing
\* non-desktop device type; otherwise tablet or mobile by OS name;
\* otherwise desktop.
C10_PriorityAllWords ==
    DeviceTypeDecision({"bot", "crawler", "spider", "scraper", "crawl"})

\* a device rule assigned a console and the UA also carries a spider token
C10_Witness ==
    /\ stage = "typed"
    /\ p_ruled.device.type = "console"
    /\ p_ruled.bot = JsUndefined
    /\ ContainsWord(p_ua, {"spider"})
    /\ p_typed.device.type = "bot"

\* ------------------------------------------------------------------------
\* 3. The handler
\* ------------------------------------------------------------------------

\* --- the Map -------------------------------------------------------------

Keys(c) == {c[i].key : i \in 1..Len(c)}

\* cache.has(key)
Has(c, key) == key \in Keys(c)

IndexOf(c, key) == CHOOSE i \in 1..Len(c) : c[i].key = key

\* cache.get(key)
Get(c, key) == c[IndexOf(c, key)].value

\* cache.set(key, value): a present key keeps its place
Set(c, key, value) ==
    IF Has(c, key)
    THEN [c EXCEPT ![IndexOf(c, key)].value = value]
    ELSE Append(c, [key |-> key, value |-> value])

\* cache.delete(key)
Delete(c, key) == SelectSeq(c, LAMBDA e : e.key # key)

\* a variant that refreshes the entry's place on a hit (an LRU)
MarkHit_Refresh(c, key) ==
    LET hit == [Get(c, key) EXCEPT !.metadata.cache_hit = TRUE]
    IN  Append(Delete(c, key), [key |-> key, value |-> hit])

\* a variant that returns the stored record as it is
MarkHit_Keep(c, key) == c

\* cachedResult.metadata.cache_hit = true, on the stored object
MarkHit(c, key) ==
    [c EXCEPT ![IndexOf(c, key)].value.metadata.cache_hit = TRUE]

\* cache.keys().next().value when the size test of line 178 holds
Evictee(c) == IF Len(c) >= CACHE_SIZE /\ Len(c) > 0 THEN {c[1].key} ELSE {}

\* a variant that evicts only above the capacity
EvictAndInsert_Above(c, key, value) ==
    Set(IF Len(c) > CACHE_SIZE THEN Delete(c, c[1].key) ELSE c, key, value)

\* if (cache.size >= CACHE_SIZE) cache.delete(cache.keys().next().value);
\* cache.set(ua_string, responsePayload)
EvictAndInsert(c, key, value) ==
    Set(IF Evictee(c) # {} THEN Delete(c, c[1].key) ELSE c, key, value)

\* --- requests ------------------------------------------------------------

\* the strings the clients ask about; the first is 2048 characters long
HANDLER_TOKENS == << "Mozilla/5.0", "Googlebot/2.1", "PlayStation 5",
                     "MicroMessenger/8.0", "Tesla/2021.4", "360SE" >>

HandlerUA(i) ==
    UAString(<< HANDLER_TOKENS[i] >>,
             IF i = 1 THEN 2048 - Len(HANDLER_TOKENS[1]) ELSE 0)

HandlerUAs == {HandlerUA(i) : i \in 1..(CACHE_SIZE + 1)}

\* the values of ua_string: absent, a number, '', a string of 2049
\* characters, and the strings above
UAValues ==
    {JsUndefined, [num |-> 7], UAString(<< >>, 0),
     UAString(<< HANDLER_TOKENS[1] >>, 2049 - Len(HANDLER_TOKENS[1]))}
    \cup HandlerUAs

Requests ==
    {[method |-> "GET", body |-> [ua_string |-> HandlerUA(1)]],
     [method |-> "POST", body |-> JsUndefined]}
    \cup {[method |-> "POST", body |-> [ua_string |-> v]] : v \in UAValues}

\* typeof v === 'string'
IsString(v) == "toks" \in DOMAIN v

\* truthiness of a value of ua_string
TruthyV(v) ==
    IF IsString(v) THEN Length(v) > 0
    ELSE IF "num" \in DOMAIN v THEN v.num # 0
    ELSE FALSE

\* new UAParser(ua_string).getResult() in the handler's runs: the parser
\* is a function of the string
UAParser(ua) ==
    CHOOSE result \in UAResults :
        /\ result.device.type = UNDEFINED
        /\ result.os.name = IF Length(ua) > 1024 THEN Undef ELSE MAC_OS

Response(status, body) == [status |-> status, body |-> body]

\* what a step of a handler did for its client: a response through res
\* (event "response"), an exception out of the handler ("threw"), or
\* nothing yet ("began").  fresh: the request began in this step.
\* touched: the step changed the cache.  evict: the eviction of the step.
Event(event, request, fresh, status, body, elapsed, touched, evict) ==
    [event |-> event, req |-> request, fresh |-> fresh, status |-> status,
     body |-> body, elapsed |-> elapsed, touched |-> touched, evict |-> evict]

\* --- the first synchronous segment (lines 138-165) -------------------------

\* an invocation takes the first slot that is free
Free(r) ==
    /\ pc[r] = "idle"
    /\ \A q \in 1..(r - 1) : pc[q] # "idle"

\* if (req.method !== 'POST') return res.status(405)...
MethodNotAllowed(r) ==
    /\ Free(r)
    /\ \E request \in Requests :
        /\ request.method # "POST"
        /\ out' = Event("response", request, TRUE, 405,
                        [error |-> "Method Not Allowed"], 0, FALSE, None)
    /\ UNCHANGED << cache, pc, req, task, race, microtasks, setLog, age >>
    /\ UNCHANGED pipelineVars

\* const { ua_string } = req.body, without a body: a TypeError outside the
\* try block; the promise of the handler rejects and res is never used
DestructureThrows(r) ==
    /\ Free(r)
    /\ \E request \in Requests :
        /\ request.method = "POST"
        /\ request.body \in {JsUndefined, JsNull}
        /\ out' = Event("threw", request, TRUE, 0, [error |-> "TypeError"],
                        0, FALSE, None)
    /\ UNCHANGED << cache, pc, req, task, race, microtasks, setLog, age >>
    /\ UNCHANGED pipelineVars

\* the test of line 142
Invalid(v) ==
    IF ~TruthyV(v) THEN TRUE
    ELSE IF ~IsString(v) THEN TRUE
    ELSE Length(v) > 2048

InvalidInput(r) ==
    /\ Free(r)
    /\ \E request \in Requests :
        /\ request.method = "POST"
        /\ request.body \notin {JsUndefined, JsNull}
        /\ Invalid(request.body.ua_string)
        /\ out' = Event("response", request, TRUE, 400,
                        [error |-> "Invalid or missing ua_string"], 0, FALSE,
                        None)
    /\ UNCHANGED << cache, pc, req, task, race, microtasks, setLog, age >>
    /\ UNCHANGED pipelineVars

\* lines 146-150
CacheHit(r) ==
    /\ Free(r)
    /\ \E request \in Requests :
        /\ request.method = "POST"
        /\ request.body \notin {JsUndefined, JsNull}
        /\ ~Invalid(request.body.ua_string)
        /\ Has(cache, request.body.ua_string)
        /\ LET ua_string == request.body.ua_string
               marked == MarkHit(cache, ua_string)
               cachedResult == Get(marked, ua_string)
           IN  /\ cache' = marked
               /\ out' = Event("response", request, TRUE, 200, cachedResult,
                               0, marked # cache, None)
    /\ UNCHANGED << pc, req, task, race, microtasks, setLog, age >>
    /\ UNCHANGED pipelineVars

\* lines 152-165: the executor of parsingTask runs to its end, then the
\* timer is set, then the handler waits for the race.  The parser returns
\* its result or throws, and the executor takes `elapsed' milliseconds.
CacheMiss(r) ==
    /\ Free(r)
    /\ \E request \in Requests :
        /\ request.method = "POST"
        /\ request.body \notin {JsUndefined, JsNull}
        /\ ~Invalid(request.body.ua_string)
        /\ ~Has(cache, request.body.ua_string)
        /\ req' = [req EXCEPT ![r] = request]
        /\ out' = Event("began", request, TRUE, 0, None, 0, FALSE, None)
        /\ \E outcome \in OutcomesOf(request.body.ua_string) :
            task' = [task EXCEPT ![r] =
                [state |-> IF outcome.throws THEN "rejected" ELSE "fulfilled",
                 value |-> IF outcome.throws THEN "parser fault"
                           ELSE ParsingTask(request.body.ua_string,
                                            UAParser(request.body.ua_string)),
                 elapsed |-> outcome.elapsed]]
    /\ race' = [race EXCEPT ![r] = [state |-> "pending"]]
    /\ microtasks' = Append(microtasks, r)
    /\ pc' = [pc EXCEPT ![r] = "awaiting"]
    /\ UNCHANGED << cache, setLog, age >>
    /\ UNCHANGED pipelineVars

\* --- the event loop --------------------------------------------------------

\* the reaction of Promise.race to parsingTask, which was settled when the
\* race began
RaceSettle(r) ==
    /\ microtasks # << >>
    /\ Head(microtasks) = r
    /\ race[r].state = "pending"
    /\ race' = [race EXCEPT ![r] = [state |-> task[r].state,
                                    value |-> task[r].value]]
    /\ microtasks' = Append(Tail(microtasks), r)
    /\ out' = None
    /\ UNCHANGED << cache, pc, req, task, setLog, age >>
    /\ UNCHANGED pipelineVars

\* a variant that stores what it answers, failures too
AfterAwait_StoreAll(c, ua_string, settled, elapsed) ==
    LET answer == IF settled.state = "fulfilled"
                  THEN Response(200, ResponsePayload(settled.value, elapsed))
                  ELSE Response(500, [error |-> "Internal Server Error",
                                      details |-> settled.value])
    IN  [cache |-> EvictAndInsert(c, ua_string, answer.body), resp |-> answer]

\* lines 165-186, from the settled race on
AfterAwait(c, ua_string, settled, elapsed) ==
    IF settled.state = "fulfilled"
    THEN LET responsePayload == ResponsePayload(settled.value, elapsed)
         IN  [cache |-> EvictAndInsert(c, ua_string, responsePayload),
              resp |-> Response(200, responsePayload)]
    ELSE [cache |-> c,
          resp |-> Response(500, [error |-> "Internal Server Error",
                                  details |-> settled.value])]

\* the keys in insertion order after the eviction and the set of a request
AgeAfter(a, evictee, key) ==
    LET kept == SelectSeq(a, LAMBDA k : k \notin evictee)
    IN  IF \E i \in 1..Len(kept) : kept[i] = key THEN kept
        ELSE Append(kept, key)

\* the log of the keys set since the start, while they are pairwise
\* distinct and at most CACHE_SIZE + 1; << More >> afterwards
More == [js |-> "more"]

LogAfter(log, key) ==
    IF Len(log) <= CACHE_SIZE /\ (log = << >> \/ log[Len(log)] # More)
    THEN IF \E i \in 1..Len(log) : log[i] = key THEN << More >>
         ELSE Append(log, key)
    ELSE << More >>

\* the handler continues after the await
Resume(r) ==
    /\ microtasks # << >>
    /\ Head(microtasks) = r
    /\ race[r].state # "pending"
    /\ LET ua_string == req[r].body.ua_string
           result == AfterAwait(cache, ua_string, race[r], task[r].elapsed)
           wrote == race[r].state = "fulfilled"
           evictee == IF wrote THEN Evictee(cache) ELSE {}
           evict == IF evictee = {} THEN None
                    ELSE [key |-> cache[1].key,
                          oldest |-> age[1],
                          oldestWasHit |->
                              Get(cache, age[1]).metadata.cache_hit,
                          newKey |-> ~Has(cache, ua_string),
                          sizeAfter |-> Len(result.cache)]
       IN  /\ cache' = result.cache
           /\ out' = Event("response", req[r], FALSE, result.resp.status,
                           result.resp.body, task[r].elapsed,
                           result.cache # cache, evict)
           /\ setLog' = IF wrote THEN LogAfter(setLog, ua_string) ELSE setLog
           /\ age' = IF wrote THEN AgeAfter(age, evictee, ua_string) ELSE age
    /\ microtasks' = Tail(microtasks)
    /\ pc' = [pc EXCEPT ![r] = IF pc[r] = "awaiting" THEN "lingering"
                               ELSE "idle"]
    /\ req' = [req EXCEPT ![r] = None]
    /\ task' = [task EXCEPT ![r] = None]
    /\ race' = [race EXCEPT ![r] = None]
    /\ UNCHANGED pipelineVars

\* the callback of setTimeout: a task of the event loop, run when no
\* microtask is queued.  It rejects timeoutPromise, which settles the race
\* only if the race is still pending.
TimerFire(r) ==
    /\ pc[r] \in {"awaiting", "lingering"}
    /\ microtasks = << >>
    /\ IF pc[r] = "awaiting" /\ race[r].state = "pending"
       THEN /\ race' = [race EXCEPT ![r] = [state |-> "rejected",
                                            value |-> "UA parsing timed out"]]
            /\ microtasks' = Append(microtasks, r)
            /\ pc' = [pc EXCEPT ![r] = "resuming"]
       ELSE /\ pc' = [pc EXCEPT ![r] = IF pc[r] = "awaiting" THEN "resuming"
                                       ELSE "idle"]
            /\ UNCHANGED << race, microtasks >>
    /\ out' = None
    /\ UNCHANGED << cache, req, task, setLog, age >>
    /\ UNCHANGED pipelineVars

Init ==
    /\ HandlerIdle
    /\ stage = "off"
    /\ p_ua = None
    /\ p_base = None
    /\ p_ruled = None
    /\ p_typed = None
    /\ p_final = None
    /\ p_payload = None

Next ==
    \E r \in 1..NumSlots :
        \/ MethodNotAllowed(r)
        \/ DestructureThrows(r)
        \/ InvalidInput(r)
        \/ CacheHit(r)
        \/ CacheMiss(r)
        \/ RaceSettle(r)
        \/ Resume(r)
        \/ TimerFire(r)

Spec == Init /\ [][Next]_vars

\* ------------------------------------------------------------------------
\* Properties of the handler and its cache (Spec)
\* ------------------------------------------------------------------------

IsEvent == out # None
IsResponse == IsEvent /\ out.event = "response"
Evicted == IsEvent /\ out.evict # None
KeysInOrder(c) == [i \in 1..Len(c) |-> c[i].key]

\* C1: FIFO eviction.  After CACHE_SIZE + 1 cache writes with pairwise
\* distinct strings since the start, the first string written is gone and
\* the other CACHE_SIZE are present; and every eviction removes the key
\* whose insertion is the oldest, whatever hits happened in between.
C1_FifoEviction ==
    /\ (Len(setLog) = CACHE_SIZE + 1 /\ setLog # << More >>) =>
           /\ ~Has(cache, setLog[1])
           /\ KeysInOrder(cache) = Tail(setLog)
    /\ Evicted => out.evict.key = out.evict.oldest

\* the cache was filled, its oldest entry was then served as a hit, and the
\* write of string CACHE_SIZE + 1 evicted that entry all the same
C1_Witness ==
    /\ Len(setLog) = CACHE_SIZE + 1
    /\ setLog # << More >>
    /\ Evicted
    /\ out.evict.oldestWasHit
    /\ out.evict.key = setLog[1]
    /\ out.status = 200

\* C2: a request whose parse-and-classify step took longer than
\* PARSE_TIMEOUT_MS is answered with status 500 and does not write the cache.
C2_Timeout ==
    (IsResponse /\ ~out.fresh /\ out.elapsed > PARSE_TIMEOUT_MS) =>
        /\ out.status = 500
        /\ ~out.touched

\* C3: the cache never holds more than CACHE_SIZE entries.
C3_CacheBound == Len(cache) <= CACHE_SIZE

\* a write into the full cache evicted an entry
C3_Witness ==
    /\ Evicted
    /\ Len(cache) = CACHE_SIZE

\* is ua_string missing, not a string, or longer than 2048 characters
BadInput(request) ==
    IF request.body = JsUndefined THEN TRUE
    ELSE IF request.body.ua_string = JsUndefined THEN TRUE
    ELSE IF ~IsString(request.body.ua_string) THEN TRUE
    ELSE Length(request.body.ua_string) > 2048

GoodInput(request) ==
    IF request.body = JsUndefined THEN FALSE
    ELSE IF ~IsString(request.body.ua_string) THEN FALSE
    ELSE Length(request.body.ua_string) \in 1..2048

\* C4: a POST whose ua_string is missing (no field, or no body at all), not
\* a string, or longer than 2048 characters is answered with status 400; a
\* string of 1..2048 characters is never answered with status 400.
C4_InputErrors ==
    (IsEvent /\ out.fresh /\ out.req.method = "POST") =>
        /\ BadInput(out.req) => (out.event = "response" /\ out.status = 400)
        /\ GoodInput(out.req) => ~(out.event = "response" /\ out.status = 400)

\* C5: a request answered with status 405, 400 or 500 did not change the
\* cache.
C5_FailuresNotCached ==
    (IsResponse /\ out.status \in {405, 400, 500}) => ~out.touched

\* a parser fault was answered with status 500 while the cache held entries
C5_Witness ==
    /\ IsResponse
    /\ out.status = 500
    /\ cache # << >>

Classification(body) ==
    [os |-> body.os, browser |-> body.browser, device |-> body.device,
     engine |-> body.engine, cpu |-> body.cpu, bot |-> body.bot]

\* the step begins a POST for the string of the 200 response just sent
AsksAgain ==
    /\ IsResponse
    /\ out.status = 200
    /\ out' # None
    /\ out'.fresh
    /\ out'.req.method = "POST"
    /\ out'.req.body # JsUndefined
    /\ out'.req.body.ua_string = out.req.body.ua_string

\* C6: a request for the string of the 200 response just sent is answered
\* with status 200, the same classification fields and cache_hit = true;
\* and the first response, when it was a miss, had cache_hit = false.
C6_Idempotent ==
    [][AsksAgain =>
          /\ out'.event = "response"
          /\ out'.status = 200
          /\ Classification(out'.body) = Classification(out.body)
          /\ out'.body.metadata.cache_hit = TRUE
          /\ (~out.fresh => out.body.metadata.cache_hit = FALSE)]_vars

\* the first string ever written to the cache was asked again and served
\* from the cache
C6_Witness ==
    /\ IsResponse
    /\ out.fresh
    /\ out.status = 200
    /\ out.body.metadata.cache_hit
    /\ setLog = << out.req.body.ua_string >>

\* C9: an eviction happens only when a key that is not in the cache is
\* inserted into the full cache, and leaves exactly CACHE_SIZE entries.
C9_AtomicUpdate ==
    Evicted =>
        /\ out.evict.newKey
        /\ out.evict.sizeAfter = CACHE_SIZE

====
